---- MODULE Spec2Model ----
(***************************************************************************)
(* Model of hosting/app.py: a FastAPI application that loads a tokenizer   *)
(* and a causal language model at import time and serves GET / and         *)
(* POST /infer on the single asyncio event loop started by uvicorn.run.    *)
(*                                                                         *)
(* Text is a sequence of fragments (TLA+ strings); the Python string is    *)
(* the concatenation of the fragments.  A local variable of a handler is   *)
(* <<>> while unbound and <<v>> once the handler has assigned v to it.     *)
(***************************************************************************)
EXTENDS Naturals, Sequences, FiniteSets

\* ------------------------------------------------------------------ bounds
\* Longest system_prompt / user_prompt value, in fragments.
MaxLen == 2
\* Number of connections the server handles at the same time.
NumReqs == 2

\* --------------------------------------------------------------- constants
\* app.py line 23: max_new_tokens=128
MaxNewTokens == 128

\* app.py line 8
ModelName == "HuggingFaceTB/SmolLM2-135M-Instruct"

Reqs == 1..NumReqs

\* Text that spells a special token of the model's vocabulary.
EndOfText == "<|endoftext|>"
\* Fragments request strings are built from: a letter, a control character,
\* and the text of a special token.
Alphabet == {"a", "\n", EndOfText}

Texts == UNION {[1..n -> Alphabet] : n \in 0..MaxLen}

\* ------------------------------------------------------------ Python values
Unbound == <<>>
Bound(v) == <<v>>
IsBound(l) == l # <<>>
Val(l) == l[1]

PyStr(t) == [type |-> "str", s |-> t]
PyNone == [type |-> "NoneType"]
PyInt(n) == [type |-> "int", n |-> n]
PyList == [type |-> "list"]
PyDict(f) == [type |-> "dict", items |-> f]

Digits == <<"1", "2", "3", "4", "5", "6", "7", "8", "9">>

\* str(v), as the f-string of line 21 formats a value with an empty format spec
Str(v) ==
  CASE v.type = "str" -> v.s
    [] v.type = "NoneType" -> <<"None">>
    [] v.type = "int" -> <<Digits[v.n]>>

\* ------------------------------------------------------------ request bodies
PromptKeys == {"system_prompt", "user_prompt"}
PromptValues == {PyStr(t) : t \in Texts} \cup {PyNone}
\* A field the handler never reads.
OtherKeys == {"max_new_tokens"}
\* An integer literal of a JSON document, by its number of digits.
IntLiteral(digits) == [type |-> "int_literal", digits |-> digits]
\* A literal longer than the interpreter's limit for int(str): 5000 digits.
HugeInt == IntLiteral(5000)
OtherValues == {PyInt(7), HugeInt}

ObjectsOver(ks) ==
  {f \in [ks -> PromptValues \cup OtherValues] :
     \A k \in ks : (k \in PromptKeys) <=> (f[k] \in PromptValues)}
Objects == UNION {ObjectsOver(ks) : ks \in SUBSET (PromptKeys \cup OtherKeys)}

\* Bodies that are not JSON documents: text that is not JSON, bytes that
\* json.loads cannot decode in the encoding it detects (b"\xff"; a UTF-16 or
\* UTF-32 document is decoded and is a Json body), and nesting deeper than the
\* recursion limit.  Text that is not JSON may hold an integer literal of more
\* than 4300 digits ahead of its syntax error (b"[" + b"1" * 5000).
Malformed == [kind |-> "malformed", huge_int |-> FALSE]
MalformedHugeInt == [kind |-> "malformed", huge_int |-> TRUE]
Undecodable == [kind |-> "undecodable"]
TooDeep == [kind |-> "too_deep"]
Json(v) == [kind |-> "json", value |-> v]
Bodies ==
  {Malformed, MalformedHugeInt, Undecodable, TooDeep, Json(PyList), Json(PyNone),
   Json(HugeInt)}
    \cup {Json(PyDict(f)) : f \in Objects}

\* Bodies sent when several connections are in flight: the four bodies that
\* are not JSON documents, a JSON array, an empty object, an object whose only
\* field is an over-long integer, an object with one prompt and an unread
\* field, and an object with both prompts.
SampleBodies ==
  {Malformed, MalformedHugeInt, Undecodable, TooDeep, Json(PyList),
   Json(PyDict(<<>>)),
   Json(PyDict([k \in {"max_new_tokens"} |-> HugeInt])),
   Json(PyDict([k \in {"user_prompt", "max_new_tokens"} |->
                  IF k = "user_prompt" THEN PyStr(<<"a">>) ELSE PyInt(7)])),
   Json(PyDict([k \in PromptKeys |->
                  IF k = "user_prompt" THEN PyStr(<<EndOfText>>) ELSE PyStr(<<"\n">>)]))}

\* Whether a JSON document holds an integer literal of more than 4300 digits,
\* which int() refuses to convert.
HasHugeInt(v) ==
  \/ v.type = "int_literal" /\ v.digits > 4300
  \/ v.type = "dict" /\ \E k \in DOMAIN v.items :
                          /\ v.items[k].type = "int_literal"
                          /\ v.items[k].digits > 4300

\* request.json(): json.loads of the received body; a rejected body raises.
\* The scanner converts an integer literal as soon as it is scanned, so an
\* over-long literal ahead of a syntax error raises ValueError.
JsonLoads(b) ==
  CASE b.kind = "malformed" /\ b.huge_int -> [raised |-> "ValueError"]
    [] b.kind = "malformed" /\ ~b.huge_int -> [raised |-> "JSONDecodeError"]
    [] b.kind = "undecodable" -> [raised |-> "UnicodeDecodeError"]
    [] b.kind = "too_deep" -> [raised |-> "RecursionError"]
    [] b.kind = "json" /\ HasHugeInt(b.value) -> [raised |-> "ValueError"]
    [] b.kind = "json" /\ ~HasHugeInt(b.value) -> [raised |-> "", value |-> b.value]

\* data.get(key, default)
Get(d, key, default) ==
  IF key \in DOMAIN d.items THEN d.items[key] ELSE default

\* str.strip() of a text: leading and trailing whitespace removed
RECURSIVE LStrip(_)
LStrip(t) == IF t # <<>> /\ Head(t) = "\n" THEN LStrip(Tail(t)) ELSE t
RECURSIVE RStrip(_)
RStrip(t) ==
  IF t # <<>> /\ t[Len(t)] = "\n" THEN RStrip(SubSeq(t, 1, Len(t) - 1)) ELSE t

\* Variant of line 21 that trims the two values before formatting them.
FormatPromptTrimmed(system_prompt, user_prompt) ==
  <<"System-Prompt: ">> \o RStrip(LStrip(Str(system_prompt)))
    \o <<"\nUser-Prompt: ">> \o RStrip(LStrip(Str(user_prompt)))
    \o <<"\n Assistant-Answer: ">>

\* line 21: the f-string
FormatPrompt(system_prompt, user_prompt) ==
  <<"System-Prompt: ">> \o Str(system_prompt)
    \o <<"\nUser-Prompt: ">> \o Str(user_prompt)
    \o <<"\n Assistant-Answer: ">>

\* ------------------------------------------------------------- library calls
\* The value a call into the transformers library returns is known to this
\* program only as the result of that call: it is recorded as the call, its
\* arguments included.

\* tokenizer(prompt, return_tensors="pt")
TokenizerCall(text, return_tensors) ==
  [fn |-> "tokenizer", text |-> text, return_tensors |-> return_tensors]

\* model.generate(**inputs, max_new_tokens=...)
GenerateCall(kwargs, max_new_tokens) ==
  [fn |-> "model.generate", kwargs |-> kwargs, max_new_tokens |-> max_new_tokens]

\* outputs[0]
Item(of, index) == [fn |-> "getitem", of |-> of, index |-> index]

\* tokenizer.decode(ids, skip_special_tokens=...)
DecodeCall(ids, skip_special_tokens) ==
  [fn |-> "tokenizer.decode", ids |-> ids,
   skip_special_tokens |-> skip_special_tokens]

\* --------------------------------------------------------------------- state
VARIABLES
  main,           \* position of the module-level code
  model_name,     \* line 8
  tokenizer,      \* line 9
  model,          \* line 10
  loop,           \* the task the event loop is running: <<>> or <<r>>
  pc,             \* per connection: position of its handler
  route,          \* per connection: the path that was requested
  body,           \* per connection: the body that was received
  data,           \* locals of infer, per connection
  system_prompt,
  user_prompt,
  prompt,
  inputs,
  outputs,
  response,
  result,         \* the value the handler returned
  error,          \* the exception that left the handler, "" if none
  calls,          \* per connection: library calls made by the handler
  genCaps         \* every max_new_tokens generation was invoked with

vars == <<main, model_name, tokenizer, model, loop, pc, route, body, data,
          system_prompt, user_prompt, prompt, inputs, outputs, response,
          result, error, calls, genCaps>>

globals == <<main, model_name, tokenizer, model>>
locals == <<data, system_prompt, user_prompt, prompt, inputs, outputs, response>>

Libs == {"json", "tokenizer", "generate", "decode"}
NoCalls == [l \in Libs |-> 0]

\* Positions of infer between the resumption after `await request.json()` and
\* the return: lines 19 to 25.
SyncPcs == {"line19", "line20", "line21", "line22", "line23", "line24", "line25"}

TokenizerHandle(name) == [kind |-> "tokenizer", name |-> name]
ModelHandle(name) == [kind |-> "model", name |-> name]

Init ==
  /\ main = "line9"
  /\ model_name = ModelName
  /\ tokenizer = Unbound
  /\ model = Unbound
  /\ loop = Unbound
  /\ pc = [r \in Reqs |-> "idle"]
  /\ route = [r \in Reqs |-> ""]
  /\ body = [r \in Reqs |-> Unbound]
  /\ data = [r \in Reqs |-> Unbound]
  /\ system_prompt = [r \in Reqs |-> Unbound]
  /\ user_prompt = [r \in Reqs |-> Unbound]
  /\ prompt = [r \in Reqs |-> Unbound]
  /\ inputs = [r \in Reqs |-> Unbound]
  /\ outputs = [r \in Reqs |-> Unbound]
  /\ response = [r \in Reqs |-> Unbound]
  /\ result = [r \in Reqs |-> Unbound]
  /\ error = [r \in Reqs |-> ""]
  /\ calls = [r \in Reqs |-> NoCalls]
  /\ genCaps = {}

\* ------------------------------------------------------------------- startup
\* line 9: tokenizer = AutoTokenizer.from_pretrained(model_name)
LoadTokenizer ==
  /\ main = "line9"
  /\ tokenizer' = Bound(TokenizerHandle(model_name))
  /\ main' = "line10"
  /\ UNCHANGED <<model_name, model, loop, pc, route, body, locals, result,
                 error, calls, genCaps>>

\* line 10: model = AutoModelForCausalLM.from_pretrained(model_name)
LoadModel ==
  /\ main = "line10"
  /\ model' = Bound(ModelHandle(model_name))
  /\ main' = "line28"
  /\ UNCHANGED <<model_name, tokenizer, loop, pc, route, body, locals, result,
                 error, calls, genCaps>>

\* Variant of lines 9-10 that swallows the exception of from_pretrained and
\* carries on to the next statement.
LoadFailsSwallowed ==
  /\ main \in {"line9", "line10"}
  /\ main' = IF main = "line9" THEN "line10" ELSE "line28"
  /\ UNCHANGED <<model_name, tokenizer, model, loop, pc, route, body, locals,
                 result, error, calls, genCaps>>

\* from_pretrained raises (missing model files): the import fails and the
\* process exits before line 28
LoadFails ==
  /\ main \in {"line9", "line10"}
  /\ main' = "failed"
  /\ UNCHANGED <<model_name, tokenizer, model, loop, pc, route, body, locals,
                 result, error, calls, genCaps>>

\* line 28: uvicorn.run(app, host="0.0.0.0", port=7860)
UvicornRun ==
  /\ main = "line28"
  /\ main' = "serving"
  /\ UNCHANGED <<model_name, tokenizer, model, loop, pc, route, body, locals,
                 result, error, calls, genCaps>>

\* ------------------------------------------------------------------ requests
\* The server accepts a connection and creates the task of its handler.
Accept(r) ==
  /\ main = "serving"
  /\ loop = Unbound
  /\ pc[r] = "idle"
  /\ \E p \in {"/", "/infer"} : route' = [route EXCEPT ![r] = p]
  /\ pc' = [pc EXCEPT ![r] = "ready"]
  /\ UNCHANGED <<globals, loop, body, locals, result, error, calls, genCaps>>

\* Variant of hello that reports the exceptions of the requests in flight.
HelloReportsErrors(r) ==
  /\ loop = Unbound
  /\ pc[r] = "ready"
  /\ route[r] = "/"
  /\ result' = [result EXCEPT
                  ![r] = Bound({"Hello"} \cup ({error[q] : q \in Reqs} \ {""}))]
  /\ pc' = [pc EXCEPT ![r] = "returned"]
  /\ UNCHANGED <<globals, loop, route, body, locals, error, calls, genCaps>>

\* lines 12-14: hello
Hello(r) ==
  /\ loop = Unbound
  /\ pc[r] = "ready"
  /\ route[r] = "/"
  /\ result' = [result EXCEPT ![r] = Bound({"Hello"})]
  /\ pc' = [pc EXCEPT ![r] = "returned"]
  /\ UNCHANGED <<globals, loop, route, body, locals, error, calls, genCaps>>

\* lines 16-18: infer runs up to `await request.json()` and suspends
InferAwaitBody(r) ==
  /\ loop = Unbound
  /\ pc[r] = "ready"
  /\ route[r] = "/infer"
  /\ pc' = [pc EXCEPT ![r] = "line18"]
  /\ UNCHANGED <<globals, loop, route, body, locals, result, error, calls,
                 genCaps>>

\* Variant of line 18 that catches the parser's exception and carries on with
\* an empty dict.
InferJsonLenient(r, received) ==
  /\ loop = Unbound
  /\ pc[r] = "line18"
  /\ \E b \in received :
       /\ body' = [body EXCEPT ![r] = Bound(b)]
       /\ calls' = [calls EXCEPT ![r]["json"] = @ + 1]
       /\ data' = [data EXCEPT
                     ![r] = Bound(IF JsonLoads(b).raised # ""
                                  THEN PyDict(<<>>)
                                  ELSE JsonLoads(b).value)]
       /\ pc' = [pc EXCEPT ![r] = "line19"]
       /\ loop' = Bound(r)
  /\ UNCHANGED <<globals, route, system_prompt, user_prompt, prompt, inputs,
                 outputs, response, result, error, genCaps>>

\* line 18: the body has arrived, the task resumes and json.loads parses it
InferJson(r, received) ==
  /\ loop = Unbound
  /\ pc[r] = "line18"
  /\ \E b \in received :
       /\ body' = [body EXCEPT ![r] = Bound(b)]
       /\ calls' = [calls EXCEPT ![r]["json"] = @ + 1]
       /\ IF JsonLoads(b).raised # ""
          THEN /\ error' = [error EXCEPT ![r] = JsonLoads(b).raised]
               /\ pc' = [pc EXCEPT ![r] = "raised"]
               /\ UNCHANGED <<loop, data>>
          ELSE /\ data' = [data EXCEPT ![r] = Bound(JsonLoads(b).value)]
               /\ pc' = [pc EXCEPT ![r] = "line19"]
               /\ loop' = Bound(r)
               /\ UNCHANGED error
  /\ UNCHANGED <<globals, route, system_prompt, user_prompt, prompt, inputs,
                 outputs, response, result, genCaps>>

\* line 18: the client disconnects while the body is awaited; request.json()
\* raises ClientDisconnect and the parser is not called
InferDisconnect(r) ==
  /\ loop = Unbound
  /\ pc[r] = "line18"
  /\ error' = [error EXCEPT ![r] = "ClientDisconnect"]
  /\ pc' = [pc EXCEPT ![r] = "raised"]
  /\ UNCHANGED <<globals, loop, route, body, locals, result, calls, genCaps>>

\* line 19: system_prompt = data.get("system_prompt", "")
InferGetSystem(r) ==
  /\ loop = Bound(r)
  /\ pc[r] = "line19"
  /\ IF Val(data[r]).type = "dict"
     THEN /\ system_prompt' =
               [system_prompt EXCEPT
                  ![r] = Bound(Get(Val(data[r]), "system_prompt", PyStr(<<>>)))]
          /\ pc' = [pc EXCEPT ![r] = "line20"]
          /\ UNCHANGED <<loop, error>>
     ELSE /\ error' = [error EXCEPT ![r] = "AttributeError"]
          /\ pc' = [pc EXCEPT ![r] = "raised"]
          /\ loop' = Unbound
          /\ UNCHANGED system_prompt
  /\ UNCHANGED <<globals, route, body, data, user_prompt, prompt, inputs,
                 outputs, response, result, calls, genCaps>>

\* Variant of line 20 that subscripts the dict: data["user_prompt"].
InferGetUserSubscript(r) ==
  /\ loop = Bound(r)
  /\ pc[r] = "line20"
  /\ IF "user_prompt" \in DOMAIN Val(data[r]).items
     THEN /\ user_prompt' =
               [user_prompt EXCEPT ![r] = Bound(Val(data[r]).items["user_prompt"])]
          /\ pc' = [pc EXCEPT ![r] = "line21"]
          /\ UNCHANGED <<loop, error>>
     ELSE /\ error' = [error EXCEPT ![r] = "KeyError"]
          /\ pc' = [pc EXCEPT ![r] = "raised"]
          /\ loop' = Unbound
          /\ UNCHANGED user_prompt
  /\ UNCHANGED <<globals, route, body, data, system_prompt, prompt, inputs,
                 outputs, response, result, calls, genCaps>>

\* line 20: user_prompt = data.get("user_prompt", "")
InferGetUser(r) ==
  /\ loop = Bound(r)
  /\ pc[r] = "line20"
  /\ user_prompt' =
       [user_prompt EXCEPT
          ![r] = Bound(Get(Val(data[r]), "user_prompt", PyStr(<<>>)))]
  /\ pc' = [pc EXCEPT ![r] = "line21"]
  /\ UNCHANGED <<globals, loop, route, body, data, system_prompt, prompt,
                 inputs, outputs, response, result, error, calls, genCaps>>

\* line 21: prompt = f"System-Prompt: {system_prompt}\nUser-Prompt: ..."
InferFormat(r) ==
  /\ loop = Bound(r)
  /\ pc[r] = "line21"
  /\ prompt' = [prompt EXCEPT
                  ![r] = Bound(FormatPrompt(Val(system_prompt[r]),
                                            Val(user_prompt[r])))]
  /\ pc' = [pc EXCEPT ![r] = "line22"]
  /\ UNCHANGED <<globals, loop, route, body, data, system_prompt, user_prompt,
                 inputs, outputs, response, result, error, calls, genCaps>>

\* Variant of line 22 that reloads the tokenizer inside the handler.
InferTokenizeReloads(r) ==
  /\ loop = Bound(r)
  /\ pc[r] = "line22"
  /\ IsBound(tokenizer)
  /\ tokenizer' = Bound(TokenizerHandle("reloaded"))
  /\ inputs' = [inputs EXCEPT ![r] = Bound(TokenizerCall(Val(prompt[r]), "pt"))]
  /\ calls' = [calls EXCEPT ![r]["tokenizer"] = @ + 1]
  /\ pc' = [pc EXCEPT ![r] = "line23"]
  /\ UNCHANGED <<main, model_name, model, loop, route, body, data,
                 system_prompt, user_prompt, prompt, outputs, response, result,
                 error, genCaps>>

\* line 22: inputs = tokenizer(prompt, return_tensors="pt")
InferTokenize(r) ==
  /\ loop = Bound(r)
  /\ pc[r] = "line22"
  /\ IsBound(tokenizer)
  /\ inputs' = [inputs EXCEPT ![r] = Bound(TokenizerCall(Val(prompt[r]), "pt"))]
  /\ calls' = [calls EXCEPT ![r]["tokenizer"] = @ + 1]
  /\ pc' = [pc EXCEPT ![r] = "line23"]
  /\ UNCHANGED <<globals, loop, route, body, data, system_prompt, user_prompt,
                 prompt, outputs, response, result, error, genCaps>>

\* line 22: the tokenizer raises
InferTokenizeRaises(r) ==
  /\ loop = Bound(r)
  /\ pc[r] = "line22"
  /\ calls' = [calls EXCEPT ![r]["tokenizer"] = @ + 1]
  /\ error' = [error EXCEPT ![r] = "TokenizerError"]
  /\ pc' = [pc EXCEPT ![r] = "raised"]
  /\ loop' = Unbound
  /\ UNCHANGED <<globals, route, body, locals, result, genCaps>>

\* Variant of line 23 that takes the cap from the request's max_new_tokens
\* field when the body has one.
InferGenerateCapFromBody(r) ==
  /\ loop = Bound(r)
  /\ pc[r] = "line23"
  /\ IsBound(model)
  /\ LET cap == Get(Val(data[r]), "max_new_tokens", PyInt(MaxNewTokens)).n IN
       /\ genCaps' = genCaps \cup {cap}
       /\ outputs' = [outputs EXCEPT ![r] = Bound(GenerateCall(Val(inputs[r]), cap))]
  /\ calls' = [calls EXCEPT ![r]["generate"] = @ + 1]
  /\ pc' = [pc EXCEPT ![r] = "line24"]
  /\ UNCHANGED <<globals, loop, route, body, data, system_prompt, user_prompt,
                 prompt, inputs, response, result, error>>

\* Variant of line 23 that runs generation off the event loop (awaited in a
\* worker thread), so the loop is free while generation runs.
InferGenerateInThread(r) ==
  /\ loop = Bound(r)
  /\ pc[r] = "line23"
  /\ IsBound(model)
  /\ genCaps' = genCaps \cup {MaxNewTokens}
  /\ outputs' = [outputs EXCEPT
                   ![r] = Bound(GenerateCall(Val(inputs[r]), MaxNewTokens))]
  /\ calls' = [calls EXCEPT ![r]["generate"] = @ + 1]
  /\ pc' = [pc EXCEPT ![r] = "line24"]
  /\ loop' = Unbound
  /\ UNCHANGED <<globals, route, body, data, system_prompt, user_prompt,
                 prompt, inputs, response, result, error>>

\* line 23: outputs = model.generate(**inputs, max_new_tokens=128)
InferGenerate(r) ==
  /\ loop = Bound(r)
  /\ pc[r] = "line23"
  /\ IsBound(model)
  /\ genCaps' = genCaps \cup {MaxNewTokens}
  /\ outputs' = [outputs EXCEPT
                   ![r] = Bound(GenerateCall(Val(inputs[r]), MaxNewTokens))]
  /\ calls' = [calls EXCEPT ![r]["generate"] = @ + 1]
  /\ pc' = [pc EXCEPT ![r] = "line24"]
  /\ UNCHANGED <<globals, loop, route, body, data, system_prompt, user_prompt,
                 prompt, inputs, response, result, error>>

\* Variant of line 23 that catches the exception of generate and calls it again.
InferGenerateRetries(r) ==
  /\ loop = Bound(r)
  /\ pc[r] = "line23"
  /\ calls[r]["generate"] < 2
  /\ genCaps' = genCaps \cup {MaxNewTokens}
  /\ calls' = [calls EXCEPT ![r]["generate"] = @ + 1]
  /\ UNCHANGED <<globals, loop, pc, route, body, locals, result, error>>

\* line 23: generation raises (out of memory, context overflow)
InferGenerateRaises(r) ==
  /\ loop = Bound(r)
  /\ pc[r] = "line23"
  /\ genCaps' = genCaps \cup {MaxNewTokens}
  /\ calls' = [calls EXCEPT ![r]["generate"] = @ + 1]
  /\ error' = [error EXCEPT ![r] = "GenerationError"]
  /\ pc' = [pc EXCEPT ![r] = "raised"]
  /\ loop' = Unbound
  /\ UNCHANGED <<globals, route, body, locals, result>>

\* line 24: response = tokenizer.decode(outputs[0], skip_special_tokens=True)
InferDecode(r) ==
  /\ loop = Bound(r)
  /\ pc[r] = "line24"
  /\ response' = [response EXCEPT
                    ![r] = Bound(DecodeCall(Item(Val(outputs[r]), 0), TRUE))]
  /\ calls' = [calls EXCEPT ![r]["decode"] = @ + 1]
  /\ pc' = [pc EXCEPT ![r] = "line25"]
  /\ UNCHANGED <<globals, loop, route, body, data, system_prompt, user_prompt,
                 prompt, inputs, outputs, result, error, genCaps>>

\* line 24: tokenizer.decode raises
InferDecodeRaises(r) ==
  /\ loop = Bound(r)
  /\ pc[r] = "line24"
  /\ calls' = [calls EXCEPT ![r]["decode"] = @ + 1]
  /\ error' = [error EXCEPT ![r] = "TokenizerError"]
  /\ pc' = [pc EXCEPT ![r] = "raised"]
  /\ loop' = Unbound
  /\ UNCHANGED <<globals, route, body, locals, result, genCaps>>

\* line 25: return {"response": response}
InferReturn(r) ==
  /\ loop = Bound(r)
  /\ pc[r] = "line25"
  /\ result' = [result EXCEPT ![r] = Bound([response |-> Val(response[r])])]
  /\ pc' = [pc EXCEPT ![r] = "returned"]
  /\ loop' = Unbound
  /\ UNCHANGED <<globals, route, body, locals, error, calls, genCaps>>

\* The framework answers the connection (the returned value, or its default
\* error response for an exception) and the handler's frame is discarded.
Finish(r) ==
  /\ loop = Unbound
  /\ pc[r] \in {"returned", "raised"}
  /\ pc' = [pc EXCEPT ![r] = "idle"]
  /\ route' = [route EXCEPT ![r] = ""]
  /\ body' = [body EXCEPT ![r] = Unbound]
  /\ data' = [data EXCEPT ![r] = Unbound]
  /\ system_prompt' = [system_prompt EXCEPT ![r] = Unbound]
  /\ user_prompt' = [user_prompt EXCEPT ![r] = Unbound]
  /\ prompt' = [prompt EXCEPT ![r] = Unbound]
  /\ inputs' = [inputs EXCEPT ![r] = Unbound]
  /\ outputs' = [outputs EXCEPT ![r] = Unbound]
  /\ response' = [response EXCEPT ![r] = Unbound]
  /\ result' = [result EXCEPT ![r] = Unbound]
  /\ error' = [error EXCEPT ![r] = ""]
  /\ calls' = [calls EXCEPT ![r] = NoCalls]
  /\ UNCHANGED <<globals, loop, genCaps>>

\* The steps of one connection; `received` is the set of bodies it may send.
Handle(r, received) ==
  \/ Accept(r)
  \/ Hello(r)
  \/ InferAwaitBody(r)
  \/ InferJson(r, received)
  \/ InferDisconnect(r)
  \/ InferGetSystem(r)
  \/ InferGetUser(r)
  \/ InferFormat(r)
  \/ InferTokenize(r)
  \/ InferTokenizeRaises(r)
  \/ InferGenerate(r)
  \/ InferGenerateRaises(r)
  \/ InferDecode(r)
  \/ InferDecodeRaises(r)
  \/ InferReturn(r)
  \/ Finish(r)

Startup ==
  \/ LoadTokenizer
  \/ LoadModel
  \/ LoadFails
  \/ UvicornRun

\* The server with NumReqs connections in flight, each sending one of the
\* sample bodies.
Next == Startup \/ \E r \in Reqs : Handle(r, SampleBodies)

Spec == Init /\ [][Next]_vars

\* The server handling one connection at a time, over every body of Bodies.
NextSeq == Startup \/ \E r \in {1} : Handle(r, Bodies)

SpecSeq == Init /\ [][NextSeq]_vars

\* -------------------------------------------------------------------- claims
Contains(t, p) ==
  \E i \in 0..Len(t) : i + Len(p) <= Len(t) /\ SubSeq(t, i + 1, i + Len(p)) = p
InferReqs == {r \in Reqs : route[r] = "/infer"}
IsDictBody(r) ==
  /\ IsBound(body[r])
  /\ Val(body[r]).kind = "json"
  /\ Val(body[r]).value.type = "dict"
Items(r) == Val(body[r]).value.items
HasStr(r, k) == k \in DOMAIN Items(r) /\ Items(r)[k].type = "str"
AfterLine21 == {"line22", "line23", "line24", "line25", "returned"}
AfterLine22 == {"line23", "line24", "line25", "returned"}

\* C1: when the body gives system_prompt S and user_prompt U as strings, the
\* prompt built at line 21, and the text the tokenizer is given at line 22, is
\* exactly "System-Prompt: " S "\nUser-Prompt: " U "\n Assistant-Answer: ".
C1_PromptIsExactConcatenation ==
  \A r \in InferReqs :
    (IsDictBody(r) /\ HasStr(r, "system_prompt") /\ HasStr(r, "user_prompt")) =>
      LET S == Items(r)["system_prompt"].s
          U == Items(r)["user_prompt"].s
          text == <<"System-Prompt: ">> \o S \o <<"\nUser-Prompt: ">> \o U
                    \o <<"\n Assistant-Answer: ">>
      IN /\ pc[r] \in AfterLine21 => prompt[r] = <<text>>
         /\ pc[r] \in AfterLine22 =>
              /\ IsBound(inputs[r])
              /\ Val(inputs[r]).fn = "tokenizer"
              /\ Val(inputs[r]).text = text

\* C1 witness: generation is about to run on a prompt whose system_prompt
\* begins with a control character and whose user_prompt holds the text of a
\* special token.
C1_Witness ==
  \E r \in InferReqs :
    /\ pc[r] = "line23"
    /\ IsDictBody(r) /\ HasStr(r, "system_prompt") /\ HasStr(r, "user_prompt")
    /\ Len(Items(r)["system_prompt"].s) = 2
    /\ Items(r)["system_prompt"].s[1] = "\n"
    /\ Items(r)["system_prompt"].s[2] = "\n"
    /\ Contains(Items(r)["user_prompt"].s, <<EndOfText>>)

Lacks(r, k) ==
  Val(body[r]).value.type # "dict" \/ k \notin DOMAIN Val(body[r]).value.items
IsJsonBody(r) == IsBound(body[r]) /\ Val(body[r]).kind = "json"
HandlerErrors == {"AttributeError", "KeyError", "TypeError", "ValueError"}
ParsedDict(r) == IsBound(data[r]) /\ Val(data[r]).type = "dict"

\* C2 as stated: for any well-formed JSON body that lacks system_prompt or
\* user_prompt, nothing is raised at lines 18 to 21, the missing fields are
\* the empty string, and the call returns a {"response": ...} result.
C2_AnyJsonBodyDefaults ==
  \A r \in InferReqs :
    (IsJsonBody(r) /\ (Lacks(r, "system_prompt") \/ Lacks(r, "user_prompt"))) =>
      /\ error[r] \notin HandlerErrors
      /\ (pc[r] \in AfterLine21 /\ Lacks(r, "system_prompt")) =>
           system_prompt[r] = <<PyStr(<<>>)>>
      /\ (pc[r] \in AfterLine21 /\ Lacks(r, "user_prompt")) =>
           user_prompt[r] = <<PyStr(<<>>)>>

\* C2 amended: for any body that request.json() parses to a dict lacking
\* system_prompt or user_prompt, the handler raises nothing of its own (only
\* the tokenizer or generation can fail the call), the missing fields are the
\* empty string, and a call that returns returns a {"response": ...} result.
C2_ObjectBodyDefaults ==
  \A r \in InferReqs :
    (ParsedDict(r) /\ (Lacks(r, "system_prompt") \/ Lacks(r, "user_prompt"))) =>
      /\ error[r] \in {"", "TokenizerError", "GenerationError"}
      /\ pc[r] # "line18"
      /\ (pc[r] \in AfterLine21 /\ Lacks(r, "system_prompt")) =>
           system_prompt[r] = <<PyStr(<<>>)>>
      /\ (pc[r] \in AfterLine21 /\ Lacks(r, "user_prompt")) =>
           user_prompt[r] = <<PyStr(<<>>)>>
      /\ pc[r] = "returned" =>
           /\ IsBound(result[r])
           /\ DOMAIN Val(result[r]) = {"response"}

\* C2 witness: a call whose body is an object with neither prompt returned.
C2_Witness ==
  \E r \in InferReqs :
    /\ IsDictBody(r)
    /\ Lacks(r, "system_prompt") /\ Lacks(r, "user_prompt")
    /\ pc[r] = "returned"
    /\ IsBound(result[r])

ParserErrors ==
  {"JSONDecodeError", "UnicodeDecodeError", "RecursionError", "ValueError"}

\* C3: a call whose body json.loads rejects fails at line 18: it holds an
\* exception of the parser, no prompt, no tokenizer or generation call, no
\* result.
C3_MalformedBodyFails ==
  \A r \in InferReqs :
    (IsBound(body[r]) /\ Val(body[r]).kind # "json") =>
      /\ pc[r] = "raised"
      /\ error[r] \in ParserErrors
      /\ data[r] = <<>> /\ system_prompt[r] = <<>> /\ user_prompt[r] = <<>>
      /\ prompt[r] = <<>> /\ inputs[r] = <<>> /\ outputs[r] = <<>>
      /\ response[r] = <<>> /\ result[r] = <<>>
      /\ calls[r]["tokenizer"] = 0 /\ calls[r]["generate"] = 0

\* C3 witness: a call with a malformed body has failed while another, whose
\* body is malformed after an over-long integer, has failed too.
C3_Witness ==
  \E r, q \in InferReqs :
    /\ IsBound(body[r]) /\ Val(body[r]) = [kind |-> "malformed", huge_int |-> FALSE]
    /\ pc[r] = "raised" /\ error[r] = "JSONDecodeError"
    /\ IsBound(body[q]) /\ Val(body[q]) = [kind |-> "malformed", huge_int |-> TRUE]
    /\ pc[q] = "raised" /\ error[q] = "ValueError"

\* C4: every invocation of generation carried max_new_tokens = 128.
C4_CapIs128 == \A cap \in genCaps : cap = 128

\* C4 witness: generation has run for a request whose body has a
\* max_new_tokens field.
C4_Witness ==
  \E r \in InferReqs :
    /\ pc[r] = "line24"
    /\ IsDictBody(r) /\ "max_new_tokens" \in DOMAIN Items(r)
    /\ genCaps # {}

\* C6: an exception of the parser, the tokenizer or generation leaves the
\* handler: the call is in its raised state with no response and no result,
\* and no library call was made a second time.
C6_ErrorsPropagate ==
  \A r \in Reqs :
    /\ \A l \in Libs : calls[r][l] <= 1
    /\ error[r] # "" =>
         /\ pc[r] = "raised"
         /\ response[r] = <<>> /\ result[r] = <<>>
    /\ (calls[r]["generate"] = 1 /\ outputs[r] = <<>>) => error[r] = "GenerationError"
    /\ (calls[r]["tokenizer"] = 1 /\ inputs[r] = <<>>) => error[r] = "TokenizerError"
    /\ (calls[r]["json"] = 1 /\ data[r] = <<>>) =>
         error[r] \in ParserErrors
    /\ (calls[r]["decode"] = 1 /\ response[r] = <<>>) => error[r] = "TokenizerError"
    /\ error[r] = "ClientDisconnect" => \A l \in Libs : calls[r][l] = 0

\* C6 witness: one call failed in generation while another failed in the
\* parser.
C6_Witness ==
  \E r, q \in Reqs :
    /\ error[r] = "GenerationError" /\ pc[r] = "raised"
    /\ error[q] \in ParserErrors /\ pc[q] = "raised"

\* C7: GET / returns the set holding the single string "Hello", whatever
\* else was or is being handled, and never raises.
C7_HelloConstant ==
  \A r \in Reqs :
    route[r] = "/" =>
      /\ pc[r] \in {"ready", "returned"}
      /\ error[r] = ""
      /\ pc[r] = "returned" => result[r] = <<{"Hello"}>>

\* C7 witness: GET / returned while a failed POST /infer was outstanding.
C7_Witness ==
  \E r, q \in Reqs :
    /\ route[r] = "/" /\ pc[r] = "returned"
    /\ route[q] = "/infer" /\ pc[q] = "raised"

\* C8: no handler has started unless the tokenizer and the model are loaded,
\* the server serves only with both loaded, and after a failed load no
\* connection is ever handled.
C8_LoadedBeforeServing ==
  /\ \A r \in Reqs : pc[r] # "idle" => (tokenizer # <<>> /\ model # <<>>)
  /\ main = "serving" => (tokenizer # <<>> /\ model # <<>>)
  /\ (tokenizer = <<>> \/ model = <<>>) => main \in {"line9", "line10", "failed"}
  /\ main = "failed" => \A r \in Reqs : pc[r] = "idle"

\* C8 witness: a handler is running with both loaded.
C8_Witness ==
  \E r \in Reqs : pc[r] = "line22" /\ tokenizer # <<>> /\ model # <<>>

\* C9: while serving, the model name and the two handles are those set at
\* startup, and two calls with the same body have built the same prompt and
\* the same generation input.
C9_GlobalsUnchanged ==
  /\ model_name = "HuggingFaceTB/SmolLM2-135M-Instruct"
  /\ main \in {"line28", "serving"} =>
       /\ tokenizer = <<[kind |-> "tokenizer", name |-> model_name]>>
       /\ model = <<[kind |-> "model", name |-> model_name]>>
  /\ \A r, q \in InferReqs :
       (IsBound(body[r]) /\ body[r] = body[q]) =>
         /\ (pc[r] \in AfterLine21 /\ pc[q] \in AfterLine21) => prompt[r] = prompt[q]
         /\ (pc[r] \in AfterLine22 /\ pc[q] \in AfterLine22) => inputs[r] = inputs[q]

\* C9 witness: a call reached generation after another call with the same
\* body had returned.
C9_Witness ==
  \E r, q \in InferReqs :
    /\ r # q
    /\ IsBound(body[r]) /\ body[r] = body[q]
    /\ pc[r] = "returned" /\ pc[q] = "line23"

\* C10: while a call is between line 19 and line 25 the event loop is its
\* own, and no step moves any other connection.
C10_NoInterleaving ==
  [][\A r \in Reqs :
       /\ pc[r] \in SyncPcs => (loop = <<r>> /\ \A q \in Reqs \ {r} : pc'[q] = pc[q])
       /\ pc'[r] \in SyncPcs => loop' = <<r>>]_vars

\* C10 witness: one call is in generation while another is suspended
\* awaiting its body.
C10_Witness ==
  \E r, q \in InferReqs : pc[r] = "line23" /\ pc[q] = "line18"

====
